---- MODULE Spec2Model ----
(***************************************************************************)
(* Model of the knowledge-base manager (src/App.tsx and                    *)
(* src/services/geminiService.ts): the document store, the ingestion of    *)
(* uploaded files, the partition membership, the analysis session and the  *)
(* context assembly of analyzeData.                                        *)
(*                                                                         *)
(* Strings are modelled by their structure.  A text is a non-empty         *)
(* sequence of lines (the text is the lines joined by "\n"); a line is n   *)
(* copies of one character c.  The empty string is one line of length 0.   *)
(* Character classes: "x" a non-blank ASCII character, "sp" a blank,       *)
(* "u2" a character that UTF-8 encodes on two bytes, "rep" U+FFFD.         *)
(* Lengths are JavaScript string lengths (UTF-16 code units).              *)
(***************************************************************************)
EXTENDS Integers, Sequences, FiniteSets, TLC

(* ---------------------------------------------------------------------- *)
(* Bounds of the model                                                     *)
(* ---------------------------------------------------------------------- *)
MaxDocs == 2
MaxAsks == 2
MaxNewPartitions == 1
MaxAsmDocs == 3
MaxLog == 8

(* ---------------------------------------------------------------------- *)
(* Program constants                                                       *)
(* ---------------------------------------------------------------------- *)
MAX_TOTAL_CHARS == 1400000
RESERVE == 200
HEADER_PERIOD == 50
ID_LEN == 9
HISTORY_TURNS == 6

FileStartPrefixLen == 18
FileStartMidLen == 13
FileStartSuffixLen == 6
FileEndPrefixLen == 15
FileEndSuffixLen == 5
TruncMarkerLen == 15
RowLabelPrefixLen == 5
RowLabelSuffixLen == 2
RepHeaderPrefixLen == 19
RepHeaderSuffixLen == 2

INITIAL_PARTITIONS == <<"all", "config", "sales", "reports", "uncategorized">>

ProcessingStatus == {"PENDING", "PROCESSING", "COMPLETED", "ERROR"}
SourceType == {"PDF", "CSV", "WEB", "TEXT"}

(* ---------------------------------------------------------------------- *)
(* Strings                                                                 *)
(* ---------------------------------------------------------------------- *)
EmptyText == <<[c |-> "sp", n |-> 0]>>

\* the sum of the lengths of the lines (summed by halves)
RECURSIVE SumLines(_)
SumLines(t) ==
    IF t = <<>> THEN 0
    ELSE IF Len(t) = 1 THEN t[1].n
    ELSE LET m == Len(t) \div 2
         IN  SumLines(SubSeq(t, 1, m)) + SumLines(SubSeq(t, m + 1, Len(t)))

\* String.prototype.length of a text: the characters plus the "\n" between lines
TextLen(t) == SumLines(t) + Len(t) - 1

\* l.trim().length > 0
NonBlank(l) == l.n > 0 /\ l.c # "sp"

\* number of decimal digits of `${idx}`
Digits(i) == IF i < 10 THEN 1 ELSE IF i < 100 THEN 2 ELSE IF i < 1000 THEN 3 ELSE 4

(* ---------------------------------------------------------------------- *)
(* File names                                                              *)
(* A name is its string, its length and the suffix after its last dot.     *)
(* ---------------------------------------------------------------------- *)
NameCsv == [s |-> "a.csv", len |-> 5, ext |-> "csv"]
NameTxt == [s |-> "b.txt", len |-> 5, ext |-> "txt"]
NameEmpty == [s |-> "e.txt", len |-> 5, ext |-> "txt"]
NameUrl == [s |-> "http://u", len |-> 8, ext |-> ""]
NameUpperCsv == [s |-> "A.CSV", len |-> 5, ext |-> "CSV"]
NameLong == [s |-> "long-name.txt", len |-> 13, ext |-> "txt"]

ToLowerCase(ext) == IF ext = "CSV" THEN "csv" ELSE IF ext = "PDF" THEN "pdf" ELSE ext

\* name.endsWith('.' + e)
EndsWith(name, e) == name.ext = e
\* name.toLowerCase().endsWith('.' + e)
LowerEndsWith(name, e) == ToLowerCase(name.ext) = e

(* ---------------------------------------------------------------------- *)
(* Context assembly of analyzeData                                         *)
(* The assembled string is a sequence of pieces; each piece is the first   *)
(* len characters of the string its kind k names.  doc is the source the   *)
(* piece was built from; name and sid are the values printed in it.        *)
(* ---------------------------------------------------------------------- *)
NoName == [s |-> "", len |-> 0, ext |-> ""]
Piece(k, doc, i, len, name, sid) ==
    [k |-> k, doc |-> doc, i |-> i, len |-> len, name |-> name, sid |-> sid]

\* .length of the string (summed by halves)
RECURSIVE RopeLen(_)
RopeLen(r) ==
    IF r = <<>> THEN 0
    ELSE IF Len(r) = 1 THEN r[1].len
    ELSE LET m == Len(r) \div 2
         IN  RopeLen(SubSeq(r, 1, m)) + RopeLen(SubSeq(r, m + 1, Len(r)))

\* r.slice(0, k): the pieces that fit whole, then the first characters of the next one
RECURSIVE RopeSlice(_, _)
RopeSlice(r, k) ==
    IF r = <<>> \/ k <= 0 THEN <<>>
    ELSE IF Len(r) = 1 THEN (IF r[1].len <= k THEN r ELSE <<[r[1] EXCEPT !.len = k]>>)
    ELSE LET m    == Len(r) \div 2
             left == SubSeq(r, 1, m)
             ll   == RopeLen(left)
         IN  IF ll >= k THEN RopeSlice(left, k)
             ELSE left \o RopeSlice(SubSeq(r, m + 1, Len(r)), k - ll)

\* s.content.split('\n').filter(l => l.trim().length > 0)
CsvLines(content) == SelectSeq(content, NonBlank)

CsvRowMarkEvery(s, lines, idx) ==
    LET label == Piece("label", s.id, idx,
                       RowLabelPrefixLen + Digits(idx) + RowLabelSuffixLen, NoName, 0)
        line  == Piece("line", s.id, idx, lines[idx + 1].n, NoName, 0)
        rep   == Piece("rephdr", s.id, idx,
                       RepHeaderPrefixLen + lines[1].n + RepHeaderSuffixLen, NoName, 0)
    IN  IF idx % HEADER_PERIOD = 0 THEN <<rep, label, line>>
        ELSE <<label, line>>

\* one element of lines.map((line, idx) => ...), idx counted from 0
CsvRow(s, lines, idx) ==
    LET label == Piece("label", s.id, idx,
                       RowLabelPrefixLen + Digits(idx) + RowLabelSuffixLen, NoName, 0)
        line  == Piece("line", s.id, idx, lines[idx + 1].n, NoName, 0)
        rep   == Piece("rephdr", s.id, idx,
                       RepHeaderPrefixLen + lines[1].n + RepHeaderSuffixLen, NoName, 0)
    IN  IF idx > 0 /\ idx % HEADER_PERIOD = 0 THEN <<rep, label, line>>
        ELSE <<label, line>>

\* rows lo .. hi of lines.map(...).join('\n'), each but the last row of the table
\* followed by the "\n" of the join (joined by halves)
RECURSIVE CsvJoin(_, _, _, _)
CsvJoin(s, lines, lo, hi) ==
    IF lo > hi THEN <<>>
    ELSE IF lo = hi
         THEN CsvRow(s, lines, lo)
              \o (IF lo + 1 < Len(lines) THEN <<Piece("nl", s.id, lo, 1, NoName, 0)>> ELSE <<>>)
    ELSE LET m == (lo + hi) \div 2
         IN  CsvJoin(s, lines, lo, m) \o CsvJoin(s, lines, m + 1, hi)

IsCsv(s) == LowerEndsWith(s.name, "csv")

ProcessedContent(s) ==
    IF IsCsv(s) THEN LET lines == CsvLines(s.content) IN CsvJoin(s, lines, 0, Len(lines) - 1)
    ELSE <<Piece("raw", s.id, 0, TextLen(s.content), NoName, 0)>>

FileHeaderLen(s) == FileStartPrefixLen + s.name.len + FileStartMidLen + ID_LEN + FileStartSuffixLen
FileFooterLen(s) == FileEndPrefixLen + s.name.len + FileEndSuffixLen

AvailableSpaceNoFooter(used, s) == MAX_TOTAL_CHARS - used - FileHeaderLen(s)

AvailableSpaceHalved(used, s) ==
    (MAX_TOTAL_CHARS - used - FileHeaderLen(s) - FileFooterLen(s)) \div 2

AvailableSpace(used, s) == MAX_TOTAL_CHARS - used - FileHeaderLen(s) - FileFooterLen(s)

SourceTextMarkerWithin(s, avail) ==
    LET pc == ProcessedContent(s) IN
    IF RopeLen(pc) > avail
    THEN RopeSlice(pc, avail - TruncMarkerLen)
         \o <<Piece("TRUNC", s.id, 0, TruncMarkerLen, NoName, 0)>>
    ELSE pc

\* sourceText: the processed content, cut to the available space and marked
SourceText(s, avail) ==
    LET pc == ProcessedContent(s) IN
    IF RopeLen(pc) > avail
    THEN RopeSlice(pc, avail) \o <<Piece("TRUNC", s.id, 0, TruncMarkerLen, NoName, 0)>>
    ELSE pc

AsmInit == [buf |-> <<>>, used |-> 0, stop |-> FALSE]

AsmStepOpenEnded(st, s) ==
    LET avail == AvailableSpace(st.used, s)
        txt   == SourceText(s, avail)
        hdr   == Piece("FILE_START", s.id, 0, FileHeaderLen(s), s.name, s.id)
        ftr   == Piece("FILE_END", s.id, 0, FileFooterLen(s), s.name, 0)
        cut   == RopeLen(ProcessedContent(s)) > avail
    IN  IF st.stop THEN st
        ELSE IF avail <= RESERVE THEN [st EXCEPT !.stop = TRUE]
        ELSE [buf  |-> st.buf \o <<hdr>> \o txt \o (IF cut THEN <<>> ELSE <<ftr>>),
              used |-> st.used + FileHeaderLen(s) + RopeLen(txt)
                         + (IF cut THEN 0 ELSE FileFooterLen(s)),
              stop |-> FALSE]

AsmStepSkipping(st, s) ==
    LET avail == AvailableSpace(st.used, s)
        txt   == SourceText(s, avail)
        hdr   == Piece("FILE_START", s.id, 0, FileHeaderLen(s), s.name, s.id)
        ftr   == Piece("FILE_END", s.id, 0, FileFooterLen(s), s.name, 0)
    IN  IF avail <= RESERVE THEN st
        ELSE [buf  |-> st.buf \o <<hdr>> \o txt \o <<ftr>>,
              used |-> st.used + FileHeaderLen(s) + RopeLen(txt) + FileFooterLen(s),
              stop |-> FALSE]

\* one iteration of "for (const s of validSources)"
AsmStep(st, s) ==
    LET avail == AvailableSpace(st.used, s)
        txt   == SourceText(s, avail)
        hdr   == Piece("FILE_START", s.id, 0, FileHeaderLen(s), s.name, s.id)
        ftr   == Piece("FILE_END", s.id, 0, FileFooterLen(s), s.name, 0)
    IN  IF st.stop THEN st
        ELSE IF avail <= RESERVE THEN [st EXCEPT !.stop = TRUE]
        ELSE [buf  |-> st.buf \o <<hdr>> \o txt \o <<ftr>>,
              used |-> st.used + FileHeaderLen(s) + RopeLen(txt) + FileFooterLen(s),
              stop |-> FALSE]

RECURSIVE AsmRun(_, _)
AsmRun(st, docs) == IF docs = <<>> THEN st ELSE AsmRun(AsmStep(st, Head(docs)), Tail(docs))

ValidSourcesUnfiltered(srcs) == srcs

HasContentOrNot(s) == TextLen(s.content) >= 0

\* sources.filter(s => s.content && s.content.length > 0)
HasContent(s) == TextLen(s.content) > 0
ValidSources(srcs) == SelectSeq(srcs, HasContent)

(* ---------------------------------------------------------------------- *)
(* The prompt of analyzeData                                               *)
(* The template is a sequence of blocks: the fixed ones are named by what  *)
(* they say, the three interpolated ones carry what is interpolated.       *)
(* ---------------------------------------------------------------------- *)
HistoryWhole(history) == history

\* history.slice(-6)
HistorySlice(history) ==
    LET n == Len(history)
    IN  SubSeq(history, IF n > HISTORY_TURNS THEN n - HISTORY_TURNS + 1 ELSE 1, n)

\* h.role === 'user' ? '用户' : '你'
Speaker(role) == IF role = "user" THEN "USER_LABEL" ELSE "MODEL_LABEL"

\* history.slice(-6).map(h => `${speaker}: ${h.text}`), the lines that join('\n') joins
HistoryLines(history) ==
    LET recent == HistorySlice(history)
    IN  [i \in DOMAIN recent |-> [speaker |-> Speaker(recent[i].role), text |-> recent[i].text]]

Block(k, context, history, query) ==
    [k |-> k, context |-> context, history |-> history, query |-> query]
Fixed(k) == Block(k, <<>>, <<>>, "")

\* contents of generateContent: the template with the three interpolations
PromptTemplate(query, history, contextBuffer) ==
    << Fixed("ROLE"),
       Fixed("SOVEREIGNTY_HEADING"),
       Fixed("SOVEREIGNTY_FILE_IS_TRUTH"),
       Fixed("SOVEREIGNTY_NO_MERGING"),
       Fixed("DATA_POOL_HEADING"),
       Block("CONTEXT", contextBuffer, <<>>, ""),
       Fixed("HISTORY_HEADING"),
       Block("HISTORY", <<>>, HistoryLines(history), ""),
       Fixed("ALGORITHM_HEADING"),
       Fixed("STEP1_LOCATE_ROWS"),
       Fixed("STEP2_VERIFY_DIFFERENCES"),
       Fixed("STEP3_CHECK_TOTALS"),
       Fixed("STEP4_MARKDOWN_TABLE"),
       Fixed("QUESTION_HEADING"),
       Block("QUERY", <<>>, <<>>, query) >>

NoPrompt == <<>>

(* ---------------------------------------------------------------------- *)
(* Files and decoding                                                      *)
(* A file's bytes are lines of n units of one byte class: "x" and "sp" are *)
(* ASCII bytes, "u2" a two-byte UTF-8 sequence, "bad" a byte that is not   *)
(* valid UTF-8.                                                            *)
(* ---------------------------------------------------------------------- *)
FileCsv == [name |-> NameCsv, data |-> <<[c |-> "x", n |-> 2], [c |-> "u2", n |-> 1]>>]
FileTxt == [name |-> NameTxt, data |-> <<[c |-> "x", n |-> 3], [c |-> "bad", n |-> 1]>>]
FileEmpty == [name |-> NameEmpty, data |-> EmptyText]
FileSet == {FileCsv, FileTxt, FileEmpty}

ByteLen(data) == LET w(l) == IF l.c = "u2" THEN 2 * l.n ELSE l.n
                     F[i \in 0..Len(data)] == IF i = 0 THEN 0 ELSE F[i - 1] + w(data[i])
                 IN  F[Len(data)] + Len(data) - 1

\* new TextDecoder('utf-8').decode(bytes): invalid bytes become U+FFFD
Utf8Decode(data) == [i \in DOMAIN data |->
                        [c |-> IF data[i].c = "bad" THEN "rep" ELSE data[i].c, n |-> data[i].n]]

Base64Undefined == [valid |-> FALSE, bytes |-> EmptyText]
Base64Of(data) == [valid |-> TRUE, bytes |-> data]

\* (e.target.result as string).split(',')[1]: an empty file's data URL is
\* "data:" on some engines (no comma, so undefined) and ends in "base64," on others
Base64Choices(file) ==
    IF ByteLen(file.data) = 0 THEN {Base64Undefined, Base64Of(file.data)}
    ELSE {Base64Of(file.data)}

\* safeBase64ToText: atob throws on what is not base64, in the try and in the catch
safeBase64ToText(b64) ==
    IF b64.valid THEN [ok |-> TRUE, text |-> Utf8Decode(b64.bytes)]
    ELSE [ok |-> FALSE, text |-> EmptyText]

RemoteOutcomes == {"summary", "nosummary", "fail"}

\* extractTextFromDocument, given how the remote call settles
extractTextFromDocument(b64, outcome) ==
    LET raw == safeBase64ToText(b64) IN
    IF ~raw.ok THEN [rejected |-> TRUE, text |-> EmptyText, summary |-> "NONE"]
    ELSE [rejected |-> FALSE,
          text     |-> raw.text,
          summary  |-> CASE outcome = "summary"   -> "SUMMARY"
                         [] outcome = "nosummary" -> "FALLBACK_LOADED"
                         [] OTHER                 -> "FALLBACK_READY"]

\* type: name.toLowerCase().endsWith('.pdf') ? PDF : name.endsWith('.csv') ? CSV : TEXT
TypeOfName(name) ==
    IF LowerEndsWith(name, "pdf") THEN "PDF"
    ELSE IF EndsWith(name, "csv") THEN "CSV" ELSE "TEXT"

(* ---------------------------------------------------------------------- *)
(* State                                                                   *)
(* ---------------------------------------------------------------------- *)
VARIABLES
    sources,                      \* useState<KnowledgeSource[]>
    partitions,                   \* ids of useState<Partition[]>
    currentPartitionId,
    selectedAnalysisPartitions,   \* the ids of the array (only includes() reads it)
    chatHistory,
    query,
    isAnalyzing,
    viewMode,
    view,                         \* the state the last render closed the handlers over
    tasks,                        \* tasks[id]: the FileReader / classification chain of document id
    requests,                     \* the analyzeData calls issued by handleSendMessage
    loadPending,                  \* loadData has not resolved yet
    loadResult,                   \* what getSourcesFromDB resolves with
    db,                           \* what saveSourcesToDB last wrote
    lastEvent,                    \* history variable: the last handler run and its outcome
    asm                           \* a run of the context assembly loop on its own

vars == <<sources, partitions, currentPartitionId, selectedAnalysisPartitions, chatHistory,
          query, isAnalyzing, viewMode, view, tasks, requests, loadPending, loadResult, db,
          lastEvent, asm>>

appVars == <<sources, partitions, currentPartitionId, selectedAnalysisPartitions, chatHistory,
             query, isAnalyzing, viewMode, view, tasks, requests, loadPending, loadResult, db,
             lastEvent>>

State == [sources |-> sources, partitions |-> partitions,
          currentPartitionId |-> currentPartitionId,
          selectedAnalysisPartitions |-> selectedAnalysisPartitions,
          chatHistory |-> chatHistory, query |-> query, isAnalyzing |-> isAnalyzing,
          viewMode |-> viewMode]

QuerySet == {"", " ", "q"}
\* query.trim()
Trim(q) == IF q = " " THEN "" ELSE q

LINK_CONTENT == <<[c |-> "x", n |-> 6]>>

\* a document saved by an earlier session
SavedDoc(st) == [id |-> 90, partitionId |-> "config", sequenceNumber |-> 1, name |-> NameTxt,
                 type |-> "TEXT", content |-> IF st = "COMPLETED" THEN <<[c |-> "x", n |-> 3]>> ELSE EmptyText,
                 status |-> st, summary |-> IF st = "COMPLETED" THEN "SUMMARY" ELSE "PLACEHOLDER",
                 born |-> 90]

\* getSourcesFromDB: nothing stored, an empty collection, or the saved documents
LoadChoices == {[some |-> FALSE, docs |-> <<>>], [some |-> TRUE, docs |-> <<>>],
                [some |-> TRUE, docs |-> <<SavedDoc("COMPLETED")>>]}

\* a call of analyzeData followed step by step: its arguments, the loop over docs (the
\* valid sources), and the contents it hands to generateContent
AsmIdle == [docs |-> <<>>, idx |-> 0, st |-> AsmInit, query |-> "", history |-> <<>>,
            stage |-> "loop", prompt |-> NoPrompt]

AppInit ==
    /\ sources = <<>>
    /\ partitions = INITIAL_PARTITIONS
    /\ currentPartitionId = "all"
    /\ selectedAnalysisPartitions = {"config", "sales", "reports"}
    /\ chatHistory = <<>>
    /\ query = ""
    /\ isAnalyzing = FALSE
    /\ viewMode = "library"
    /\ view = State
    /\ tasks = <<>>
    /\ requests = <<>>
    /\ loadPending = TRUE
    /\ loadResult \in LoadChoices
    /\ db = <<>>
    /\ lastEvent = "init"

Init == AppInit /\ asm = AsmIdle

(* ---------------------------------------------------------------------- *)
(* Derived views                                                           *)
(* ---------------------------------------------------------------------- *)
Range(f) == {f[i] : i \in DOMAIN f}
Ids(srcs) == {srcs[i].id : i \in DOMAIN srcs}

analysisSourcesUnfiltered(v) == v.sources

\* sources.filter(s => selectedAnalysisPartitions.includes(s.partitionId))
analysisSources(v) ==
    LET In(s) == s.partitionId \in v.selectedAnalysisPartitions IN SelectSeq(v.sources, In)

\* currentPartitionId === 'all' ? sources : sources.filter(...)
filteredSources(v) ==
    LET In(s) == s.partitionId = v.currentPartitionId
    IN  IF v.currentPartitionId = "all" THEN v.sources ELSE SelectSeq(v.sources, In)

\* partitions.filter(p => p.id !== 'all') of the upload dialog
uploadablePartitions(v) == Range(v.partitions) \ {"all"}

\* setSources(prev => prev.map(s => s.id === id ? patch(s) : s))
MapById(srcs, id, patch(_)) ==
    [i \in DOMAIN srcs |-> IF srcs[i].id = id THEN patch(srcs[i]) ELSE srcs[i]]

(* ---------------------------------------------------------------------- *)
(* Rendering: the handlers of the next events close over the new state,    *)
(* and the effect on [sources] saves the store                             *)
(* ---------------------------------------------------------------------- *)
\* the render and the save effect that follow the state updates of an event handler:
\* the updates of one event are committed before the next event is dispatched
Commit == view' = State' /\ db' = sources'

\* the render that follows state updates made outside an event handler (a promise
\* continuation): it is scheduled, and events may be handled before it
Render ==
    /\ view # State
    /\ view' = State
    /\ db' = sources
    /\ UNCHANGED <<sources, partitions, currentPartitionId, selectedAnalysisPartitions,
                   chatHistory, query, isAnalyzing, viewMode, tasks, requests, loadPending,
                   loadResult, lastEvent, asm>>

(* ---------------------------------------------------------------------- *)
(* Initial load                                                            *)
(* ---------------------------------------------------------------------- *)
\* loadData: if (savedSources) setSources(savedSources)
LoadResolve ==
    /\ loadPending
    /\ loadPending' = FALSE
    /\ sources' = IF loadResult.some THEN loadResult.docs ELSE sources
    /\ lastEvent' = "other"
    /\ UNCHANGED <<partitions, currentPartitionId, selectedAnalysisPartitions, chatHistory,
                   query, isAnalyzing, viewMode, view, tasks, requests, loadResult, db, asm>>

(* ---------------------------------------------------------------------- *)
(* Ingestion                                                               *)
(* ---------------------------------------------------------------------- *)
TargetPartitionAsGiven(partitionId) == partitionId

\* (partitionId === 'all' || !partitionId) ? 'uncategorized' : partitionId
TargetPartition(partitionId) ==
    IF partitionId = "all" \/ partitionId = "" THEN "uncategorized" ELSE partitionId

FilePlaceholdersNumberedById(files, partitionId, firstId, storeSize) ==
    [index \in 1..Len(files) |->
        [id |-> firstId + index - 1,
         partitionId |-> TargetPartition(partitionId),
         sequenceNumber |-> firstId + index - 1,
         name |-> files[index].name,
         type |-> TypeOfName(files[index].name),
         content |-> EmptyText,
         status |-> "PROCESSING",
         summary |-> "PLACEHOLDER",
         born |-> firstId + index - 1]]

\* files.map((file, index) => ({...})) of processFiles; ids are fresh
FilePlaceholders(files, partitionId, firstId, storeSize) ==
    [index \in 1..Len(files) |->
        [id |-> firstId + index - 1,
         partitionId |-> TargetPartition(partitionId),
         sequenceNumber |-> storeSize + (index - 1) + 1,
         name |-> files[index].name,
         type |-> TypeOfName(files[index].name),
         content |-> EmptyText,
         status |-> "PROCESSING",
         summary |-> "PLACEHOLDER",
         born |-> firstId + index - 1]]

NewTasks(files) == [index \in 1..Len(files) |->
                      [file |-> files[index], stage |-> "reading", b64 |-> Base64Undefined,
                       outcome |-> "none"]]

\* processFiles(files, partitionId), called from a handler of the last render
processFiles(files, partitionId) ==
    /\ Len(tasks) + Len(files) <= MaxDocs
    /\ sources' = sources \o FilePlaceholders(files, partitionId, Len(tasks) + 1, Len(view.sources))
    /\ tasks' = tasks \o NewTasks(files)

\* UploadManager.handleFileChange -> onUpload(files, selectedPartition)
UploadFromDialog(files, pid) ==
    /\ view.viewMode = "library"
    /\ pid \in uploadablePartitions(view)
    /\ processFiles(files, pid)
    /\ lastEvent' = "other"
    /\ UNCHANGED <<partitions, currentPartitionId, selectedAnalysisPartitions, chatHistory,
                   query, isAnalyzing, viewMode, requests, loadPending, loadResult, asm>>
    /\ Commit

\* onDrop of the application root: processFiles(files, currentPartitionId)
RootDrop(files) ==
    /\ processFiles(files, view.currentPartitionId)
    /\ lastEvent' = "other"
    /\ UNCHANGED <<partitions, currentPartitionId, selectedAnalysisPartitions, chatHistory,
                   query, isAnalyzing, viewMode, requests, loadPending, loadResult, asm>>
    /\ Commit

\* files dropped on the drop zone of the upload dialog: its onDrop calls onUpload and,
\* not stopping the event, lets it bubble to the onDrop of the application root, which
\* calls processFiles again; both calls read the sources of the same render
DialogDrop(files, pid) ==
    /\ view.viewMode = "library"
    /\ pid \in uploadablePartitions(view)
    /\ Len(tasks) + 2 * Len(files) <= MaxDocs
    /\ sources' = sources
          \o FilePlaceholders(files, pid, Len(tasks) + 1, Len(view.sources))
          \o FilePlaceholders(files, view.currentPartitionId, Len(tasks) + Len(files) + 1,
                              Len(view.sources))
    /\ tasks' = tasks \o NewTasks(files) \o NewTasks(files)
    /\ lastEvent' = "other"
    /\ UNCHANGED <<partitions, currentPartitionId, selectedAnalysisPartitions, chatHistory,
                   query, isAnalyzing, viewMode, requests, loadPending, loadResult, asm>>
    /\ Commit

\* onDrop of a partition row, files dragged in from outside
PartitionDropFiles(p, files) ==
    /\ p \in Range(view.partitions)
    /\ processFiles(files, p)
    /\ currentPartitionId' = IF view.viewMode = "library" THEN p ELSE currentPartitionId
    /\ lastEvent' = "other"
    /\ UNCHANGED <<partitions, selectedAnalysisPartitions, chatHistory,
                   query, isAnalyzing, viewMode, requests, loadPending, loadResult, asm>>
    /\ Commit

\* onLinkAdd(u, p): setSources(prev => [...prev, {...}])
OnLinkAdd(p) ==
    /\ view.viewMode = "library"
    /\ p \in uploadablePartitions(view)
    /\ Len(tasks) + 1 <= MaxDocs
    /\ sources' = Append(sources,
          [id |-> Len(tasks) + 1, partitionId |-> p, sequenceNumber |-> Len(sources) + 1,
           name |-> NameUrl, type |-> "WEB", content |-> LINK_CONTENT,
           status |-> "COMPLETED", summary |-> "LINK", born |-> Len(tasks) + 1])
    /\ tasks' = Append(tasks, [file |-> FileEmpty, stage |-> "link", b64 |-> Base64Undefined,
                               outcome |-> "none"])
    /\ lastEvent' = "other"
    /\ UNCHANGED <<partitions, currentPartitionId, selectedAnalysisPartitions, chatHistory,
                   query, isAnalyzing, viewMode, requests, loadPending, loadResult, asm>>
    /\ Commit

PatchCompleted(text, summary, s) ==
    [s EXCEPT !.content = text, !.summary = summary, !.status = "COMPLETED"]
PatchError(s) == [s EXCEPT !.summary = "MOUNT_FAILED", !.status = "ERROR"]

\* reader.onload: the data URL is split and extractTextFromDocument is called; when the
\* local decode throws, the call rejects at once and the catch of processFiles patches
ReaderOnLoad(id, b64) ==
    /\ id \in DOMAIN tasks
    /\ tasks[id].stage = "reading"
    /\ b64 \in Base64Choices(tasks[id].file)
    /\ IF extractTextFromDocument(b64, "fail").rejected
       THEN /\ sources' = MapById(sources, id, PatchError)
            /\ tasks' = [tasks EXCEPT ![id].stage = "done", ![id].b64 = b64]
       ELSE /\ sources' = sources
            /\ tasks' = [tasks EXCEPT ![id].stage = "classifying", ![id].b64 = b64]
    /\ lastEvent' = "other"
    /\ UNCHANGED <<partitions, currentPartitionId, selectedAnalysisPartitions, chatHistory,
                   query, isAnalyzing, viewMode, view, requests, loadPending, loadResult, db, asm>>

\* the FileReader fails: no onerror handler is installed
ReaderOnError(id) ==
    /\ id \in DOMAIN tasks
    /\ tasks[id].stage = "reading"
    /\ tasks' = [tasks EXCEPT ![id].stage = "readfailed"]
    /\ lastEvent' = "other"
    /\ UNCHANGED <<sources, partitions, currentPartitionId, selectedAnalysisPartitions,
                   chatHistory, query, isAnalyzing, viewMode, view, requests, loadPending,
                   loadResult, db, asm>>

ClassifyPatchBatch(id, outcome, srcs) ==
    LET r == extractTextFromDocument(tasks[id].b64, outcome)
        P(s) == IF outcome = "fail" THEN PatchError(s) ELSE PatchCompleted(r.text, r.summary, s)
    IN  [i \in DOMAIN srcs |-> IF srcs[i].status = "PROCESSING" THEN P(srcs[i]) ELSE srcs[i]]

ClassifyPatchUpsert(id, outcome, srcs) ==
    LET r == extractTextFromDocument(tasks[id].b64, outcome)
        P(s) == PatchCompleted(r.text, r.summary, s)
        blank == [id |-> id, partitionId |-> "uncategorized", sequenceNumber |-> Len(srcs) + 1,
                  name |-> tasks[id].file.name, type |-> TypeOfName(tasks[id].file.name),
                  content |-> EmptyText, status |-> "PROCESSING", summary |-> "PLACEHOLDER",
                  born |-> id]
    IN  IF id \in Ids(srcs) THEN MapById(srcs, id, P) ELSE Append(srcs, P(blank))

\* the remote classification call settles and the await of processFiles continues
ClassifyPatch(id, outcome, srcs) ==
    LET r == extractTextFromDocument(tasks[id].b64, outcome)
        P(s) == PatchCompleted(r.text, r.summary, s)
    IN  IF r.rejected THEN MapById(srcs, id, PatchError) ELSE MapById(srcs, id, P)

ClassifyResolve(id, outcome) ==
    /\ id \in DOMAIN tasks
    /\ tasks[id].stage = "classifying"
    /\ outcome \in RemoteOutcomes
    /\ sources' = ClassifyPatch(id, outcome, sources)
    /\ tasks' = [tasks EXCEPT ![id].stage = "done", ![id].outcome = outcome]
    /\ lastEvent' = IF id \in Ids(sources) THEN "other" ELSE "patch_missing"
    /\ UNCHANGED <<partitions, currentPartitionId, selectedAnalysisPartitions, chatHistory,
                   query, isAnalyzing, viewMode, view, requests, loadPending, loadResult, db, asm>>

(* ---------------------------------------------------------------------- *)
(* Partitions, reassignment, delete                                        *)
(* ---------------------------------------------------------------------- *)
NewPartitionId(k) == IF k = 1 THEN "p1" ELSE IF k = 2 THEN "p2" ELSE "p3"

\* the "+" button: setPartitions(p => [...p, {id: random, name}])
AddPartition ==
    /\ Len(partitions) < Len(INITIAL_PARTITIONS) + MaxNewPartitions
    /\ partitions' = Append(partitions, NewPartitionId(Len(partitions) - Len(INITIAL_PARTITIONS) + 1))
    /\ lastEvent' = "other"
    /\ UNCHANGED <<sources, currentPartitionId, selectedAnalysisPartitions, chatHistory, query,
                   isAnalyzing, viewMode, tasks, requests, loadPending, loadResult, asm>>
    /\ Commit

SetPartitionAndRestart(p, s) == [s EXCEPT !.partitionId = p, !.status = "PROCESSING"]

SetPartition(p, s) == [s EXCEPT !.partitionId = p]

DropInternalRemoveAndAdd(srcs, internalId, p) ==
    LET Keep(s) == s.id # internalId
        Is(s) == s.id = internalId
        moved == SelectSeq(srcs, Is)
    IN  IF p # "all"
        THEN SelectSeq(srcs, Keep) \o [i \in DOMAIN moved |-> SetPartition(p, moved[i])]
        ELSE srcs

\* what the internal branch of the partition row's onDrop makes of the store
DropInternal(srcs, internalId, p) ==
    LET P(s) == SetPartition(p, s)
    IN  IF p # "all" THEN MapById(srcs, internalId, P) ELSE srcs

\* onDrop of a partition row with a document card dragged onto it; on 'all' the
\* internal branch is skipped and, there being no files, nothing is done
PartitionDropInternal(p, internalId) ==
    /\ view.viewMode = "library"
    /\ p \in Range(view.partitions)
    /\ internalId \in Ids(filteredSources(view))
    /\ sources' = DropInternal(sources, internalId, p)
    /\ currentPartitionId' = IF p # "all" THEN p ELSE currentPartitionId
    /\ lastEvent' = IF p # "all" THEN "move" ELSE "move_all"
    /\ UNCHANGED <<partitions, selectedAnalysisPartitions, chatHistory, query, isAnalyzing,
                   viewMode, tasks, requests, loadPending, loadResult, asm>>
    /\ Commit

\* the delete button of a card: setSources(prev => prev.filter(s => s.id !== source.id))
DeleteSource(id) ==
    /\ view.viewMode = "library"
    /\ id \in Ids(filteredSources(view))
    /\ sources' = LET Keep(s) == s.id # id IN SelectSeq(sources, Keep)
    /\ lastEvent' = "other"
    /\ UNCHANGED <<partitions, currentPartitionId, selectedAnalysisPartitions, chatHistory,
                   query, isAnalyzing, viewMode, tasks, requests, loadPending, loadResult, asm>>
    /\ Commit

\* onClick of a partition row
PartitionClick(p) ==
    /\ p \in Range(view.partitions)
    /\ IF view.viewMode = "library"
       THEN /\ currentPartitionId' = p
            /\ UNCHANGED selectedAnalysisPartitions
       ELSE /\ selectedAnalysisPartitions' =
                  IF p = "all" THEN selectedAnalysisPartitions
                  ELSE IF p \in selectedAnalysisPartitions
                       THEN selectedAnalysisPartitions \ {p}
                       ELSE selectedAnalysisPartitions \cup {p}
            /\ UNCHANGED currentPartitionId
    /\ lastEvent' = "other"
    /\ UNCHANGED <<sources, partitions, chatHistory, query, isAnalyzing, viewMode, tasks,
                   requests, loadPending, loadResult, asm>>
    /\ Commit

SetViewMode(m) ==
    /\ m \in {"library", "analysis"}
    /\ m # viewMode
    /\ viewMode' = m
    /\ lastEvent' = "other"
    /\ UNCHANGED <<sources, partitions, currentPartitionId, selectedAnalysisPartitions,
                   chatHistory, query, isAnalyzing, tasks, requests, loadPending,
                   loadResult, asm>>
    /\ Commit

(* ---------------------------------------------------------------------- *)
(* Analysis session                                                        *)
(* ---------------------------------------------------------------------- *)
\* onChange of the query textarea
SetQuery(q) ==
    /\ view.viewMode = "analysis"
    /\ q \in QuerySet
    /\ q # query
    /\ query' = q
    /\ lastEvent' = "other"
    /\ UNCHANGED <<sources, partitions, currentPartitionId, selectedAnalysisPartitions,
                   chatHistory, isAnalyzing, viewMode, tasks, requests, loadPending,
                   loadResult, asm>>
    /\ Commit

Message(role, text, ask) == [role |-> role, text |-> text, ask |-> ask]

SendRejectedEmptyOnly(v) == Trim(v.query) = ""

\* if (!query.trim() || isAnalyzing) return;
SendRejected(v) == Trim(v.query) = "" \/ v.isAnalyzing

\* what analyzeData resolves with once the remote call has settled
AnalysisText(outcome) ==
    CASE outcome = "text"  -> "ANSWER"
      [] outcome = "empty" -> "NO_MATCH"
      [] OTHER             -> "ANALYSIS_FAILED"

AnalysisOutcomes == {"text", "empty", "fail"}

ModelReplyInPlace(log, outcome, ask) ==
    Append(SubSeq(log, 1, Len(log) - 1), Message("model", AnalysisText(outcome), ask))

ModelReplyDropOnFail(log, outcome, ask) ==
    IF outcome = "fail" THEN log
    ELSE Append(log, Message("model", AnalysisText(outcome), ask))

\* setChatHistory(prev => [...prev, aiMessage]) with the text analyzeData resolved with
ModelReply(log, outcome, ask) == Append(log, Message("model", AnalysisText(outcome), ask))

AssembleContextKept(docs) ==
    LET last == IF requests = <<>> THEN <<>> ELSE requests[Len(requests)].context
    IN  AsmRun([buf |-> last, used |-> RopeLen(last), stop |-> FALSE], docs).buf

\* the loop of analyzeData: contextBuffer and usedChars are locals of the call
AssembleContext(docs) == AsmRun(AsmInit, docs).buf

\* what analyzeData(query, history, sources) does before its await: nothing but the
\* fixed text when no source has content, else the prompt it sends
analyzeDataCall(q, history, srcs) ==
    LET valid == ValidSources(srcs)
        ctx   == IF valid = <<>> THEN <<>> ELSE AssembleContext(valid)
    IN  [query |-> q, history |-> history, candidates |-> srcs, docs |-> valid,
         remote |-> valid # <<>>,
         context |-> ctx,
         prompt |-> IF valid = <<>> THEN NoPrompt ELSE PromptTemplate(q, history, ctx),
         stage |-> IF valid = <<>> THEN "done" ELSE "remote",
         outcome |-> IF valid = <<>> THEN "local" ELSE "none"]

\* handleSendMessage (button or Ctrl+Enter), as closed over the last render
handleSendMessage ==
    /\ view.viewMode = "analysis"
    /\ IF SendRejected(view)
       THEN /\ lastEvent' = IF Trim(view.query) = "" THEN "send_rejected_empty"
                                                    ELSE "send_rejected_busy"
            /\ UNCHANGED <<chatHistory, query, isAnalyzing, requests>>
       ELSE LET ask   == Len(requests) + 1
                user  == Message("user", view.query, ask)
                valid == ValidSources(analysisSources(view))
                req   == analyzeDataCall(view.query, view.chatHistory, analysisSources(view))
            IN  /\ Len(requests) < MaxAsks
                /\ requests' = Append(requests, req)
                /\ query' = ""
                /\ IF valid = <<>>
                   THEN /\ chatHistory' = chatHistory \o
                                <<user, Message("model", "NO_VALID_DOCS", ask)>>
                        /\ isAnalyzing' = FALSE
                        /\ lastEvent' = "other"
                   ELSE /\ chatHistory' = Append(chatHistory, user)
                        /\ isAnalyzing' = TRUE
                        /\ lastEvent' = "other"
    /\ UNCHANGED <<sources, partitions, currentPartitionId, selectedAnalysisPartitions,
                   viewMode, tasks, loadPending, loadResult, asm>>
    /\ db' = sources'
    /\ view' = IF SendRejected(view) THEN view
               ELSE IF isAnalyzing' THEN State'
               ELSE [State' EXCEPT !.isAnalyzing = TRUE,
                                   !.chatHistory = SubSeq(chatHistory', 1, Len(chatHistory') - 1)]

AnalyzingAfterUnlessFailed(outcome) == outcome = "fail"

\* finally { setIsAnalyzing(false) }
AnalyzingAfter(outcome) == FALSE

\* the remote call of analyzeData settles; the await of handleSendMessage continues
AnalysisResolve(i, outcome) ==
    /\ i \in DOMAIN requests
    /\ requests[i].stage = "remote"
    /\ outcome \in AnalysisOutcomes
    /\ chatHistory' = ModelReply(chatHistory, outcome, i)
    /\ isAnalyzing' = AnalyzingAfter(outcome)
    /\ requests' = [requests EXCEPT ![i].stage = "done", ![i].outcome = outcome]
    /\ lastEvent' = "other"
    /\ UNCHANGED <<sources, partitions, currentPartitionId, selectedAnalysisPartitions,
                   query, viewMode, view, tasks, loadPending, loadResult, db, asm>>

(* ---------------------------------------------------------------------- *)
(* The application                                                         *)
(* ---------------------------------------------------------------------- *)
AllPartitionIds == Range(INITIAL_PARTITIONS) \cup {NewPartitionId(k) : k \in 1..3}
AllBase64 == {Base64Undefined} \cup {Base64Of(f.data) : f \in FileSet}
DocIds == 1..MaxDocs + 1

\* the document store: ingestion, links, reassignment, delete, initial load
StoreBatches == {<<FileTxt>>, <<FileEmpty>>, <<FileTxt, FileEmpty>>}
StoreTargets == {"all", "config", "p1"}

NextStore ==
    \/ Render
    \/ LoadResolve
    \/ \E files \in StoreBatches, pid \in StoreTargets : UploadFromDialog(files, pid)
    \/ \E files \in StoreBatches : RootDrop(files)
    \/ \E files \in StoreBatches, p \in StoreTargets : PartitionDropFiles(p, files)
    \/ \E p \in StoreTargets : OnLinkAdd(p)
    \/ \E id \in DocIds, b64 \in AllBase64 : ReaderOnLoad(id, b64)
    \/ \E id \in DocIds : ReaderOnError(id)
    \/ \E id \in DocIds, outcome \in RemoteOutcomes : ClassifyResolve(id, outcome)
    \/ AddPartition
    \/ \E p \in StoreTargets, id \in Ids(view.sources) : PartitionDropInternal(p, id)
    \/ \E id \in Ids(view.sources) : DeleteSource(id)
    \/ \E p \in StoreTargets : PartitionClick(p)

SpecStore == Init /\ [][NextStore]_vars

\* the creation of documents alone: the batches, the links, delete and the initial load
NextIntake ==
    \/ Render
    \/ LoadResolve
    \/ \E files \in StoreBatches, pid \in StoreTargets : UploadFromDialog(files, pid)
    \/ \E files \in StoreBatches : RootDrop(files)
    \/ \E files \in StoreBatches, pid \in StoreTargets : DialogDrop(files, pid)
    \/ \E files \in StoreBatches, p \in StoreTargets : PartitionDropFiles(p, files)
    \/ \E p \in StoreTargets : OnLinkAdd(p)
    \/ AddPartition
    \/ \E id \in Ids(view.sources) : DeleteSource(id)
    \/ \E p \in StoreTargets : PartitionClick(p)

SpecIntake == Init /\ [][NextIntake]_vars

\* the analysis session over a small store
SessionBatches == {<<FileTxt>>}
SessionOutcomes == {"summary"}
SessionTargets == {"all", "config"}
SessionLinkTargets == {"sales"}
SessionClicks == {"all", "config", "sales", "reports"}

\* nothing was stored by an earlier session
InitSession == Init /\ loadResult = [some |-> FALSE, docs |-> <<>>]

NextSession ==
    \/ Render
    \/ \E files \in SessionBatches, pid \in SessionTargets : UploadFromDialog(files, pid)
    \/ \E p \in SessionLinkTargets : OnLinkAdd(p)
    \/ \E id \in DocIds, b64 \in AllBase64 : ReaderOnLoad(id, b64)
    \/ \E id \in DocIds, outcome \in SessionOutcomes : ClassifyResolve(id, outcome)
    \/ \E p \in SessionClicks : view.viewMode = "analysis" /\ PartitionClick(p)
    \/ \E m \in {"library", "analysis"} : SetViewMode(m)
    \/ \E q \in QuerySet : SetQuery(q)
    \/ handleSendMessage
    \/ \E i \in 1..MaxAsks + 1, outcome \in AnalysisOutcomes : AnalysisResolve(i, outcome)

SpecSession == InitSession /\ [][NextSession]_vars

\* the asks alone, over links; the remote call eventually settles and a scheduled render
\* eventually runs
NextAsk ==
    \/ Render
    \/ \E p \in SessionLinkTargets : OnLinkAdd(p)
    \/ \E p \in SessionClicks : view.viewMode = "analysis" /\ PartitionClick(p)
    \/ \E m \in {"library", "analysis"} : SetViewMode(m)
    \/ \E q \in QuerySet : SetQuery(q)
    \/ handleSendMessage
    \/ \E i \in 1..MaxAsks + 1, outcome \in AnalysisOutcomes : AnalysisResolve(i, outcome)

SpecAskLive ==
    /\ InitSession
    /\ [][NextAsk]_vars
    /\ WF_vars(Render)
    /\ WF_vars(\E i \in 1..MaxAsks + 1, outcome \in AnalysisOutcomes : AnalysisResolve(i, outcome))

(* ---------------------------------------------------------------------- *)
(* The context assembly loop on its own, one iteration per step            *)
(* ---------------------------------------------------------------------- *)
AsmNames == {NameCsv, NameTxt, NameUpperCsv, NameLong}
\* the documents after the second one
AsmTailNames == {NameTxt}
AsmTailContents == {<<[c |-> "x", n |-> 5]>>}

\* a table of 102 lines, the first one empty and the fifth blank: a header and 99 rows
CsvLong == [i \in 1..102 |-> IF i = 1 THEN [c |-> "sp", n |-> 0]
                             ELSE IF i = 5 THEN [c |-> "sp", n |-> 2]
                             ELSE [c |-> "x", n |-> (i % 3) + 1]]
\* a table longer than the budget
CsvHuge == [i \in 1..60 |-> [c |-> "x", n |-> 30000]]
AsmContents ==
    { EmptyText,
      <<[c |-> "x", n |-> 5]>>,
      <<[c |-> "x", n |-> 3], [c |-> "sp", n |-> 2], [c |-> "x", n |-> 4]>>,
      <<[c |-> "x", n |-> 1399000]>>,
      <<[c |-> "x", n |-> 1399640]>>,
      <<[c |-> "x", n |-> 1399700]>>,
      <<[c |-> "x", n |-> 1399924]>>,
      <<[c |-> "x", n |-> 700000], [c |-> "x", n |-> 800000]>>,
      CsvLong, CsvHuge }

\* a document as processFiles types it from the name of its file
AsmDoc(id, name, content) ==
    [id |-> id, name |-> name, content |-> content, type |-> TypeOfName(name)]

RECURSIVE AsmInputs(_)
AsmInputs(k) ==
    IF k = 0 THEN {<<>>}
    ELSE LET shorter == AsmInputs(k - 1)
         IN  shorter \cup
             {Append(d, AsmDoc(Len(d) + 1, nm, ct)) :
                 d \in {x \in shorter : Len(x) = k - 1},
                 nm \in (IF k <= 2 THEN AsmNames ELSE AsmTailNames),
                 ct \in (IF k <= 2 THEN AsmContents ELSE AsmTailContents)}

InitAssemble ==
    /\ AppInit
    /\ loadResult = [some |-> FALSE, docs |-> <<>>]
    /\ \E input \in AsmInputs(MaxAsmDocs) :
          asm = [AsmIdle EXCEPT !.docs = ValidSources(input)]

\* one iteration of the loop over validSources
AsmIterate ==
    /\ asm.stage = "loop"
    /\ asm.idx < Len(asm.docs)
    /\ ~asm.st.stop
    /\ asm' = [asm EXCEPT !.idx = asm.idx + 1, !.st = AsmStep(asm.st, asm.docs[asm.idx + 1])]
    /\ UNCHANGED appVars

NextAssemble == AsmIterate

SpecAssemble == InitAssemble /\ [][NextAssemble]_vars

\* C4: the assembled context is never longer than the budget MAX_TOTAL_CHARS plus the
\* length of one truncation marker, and usedChars is the length of the buffer
C4_BudgetBound ==
    /\ asm.st.used <= MAX_TOTAL_CHARS + TruncMarkerLen
    /\ RopeLen(asm.st.buf) = asm.st.used

\* a second document was cut to the space the first one left, and the marker appended
C4_Witness ==
    /\ asm.idx = 2
    /\ asm.st.used = MAX_TOTAL_CHARS + TruncMarkerLen
    /\ \E i \in DOMAIN asm.st.buf : asm.st.buf[i].k = "TRUNC" /\ asm.st.buf[i].doc = 2

(* ---------------------------------------------------------------------- *)
(* A call of analyzeData on its own: filter, loop, prompt                  *)
(* ---------------------------------------------------------------------- *)
LogTexts == <<"t1", "t2", "t3", "t4", "t5", "t6", "t7", "t8", "t9", "t10">>

\* a conversation log of n messages, user and model taking turns
LogOf(n, first) ==
    [i \in 1..n |-> Message(IF (i % 2 = 1) = (first = "user") THEN "user" ELSE "model",
                            LogTexts[i], (i + 1) \div 2)]
Logs == {LogOf(n, first) : n \in 0..MaxLog, first \in {"user", "model"}}

InitPrompt ==
    /\ AppInit
    /\ loadResult = [some |-> FALSE, docs |-> <<>>]
    /\ \E input \in AsmInputs(1), h \in Logs :
          asm = [AsmIdle EXCEPT !.docs = ValidSources(input), !.query = "q", !.history = h]

\* if (validSources.length === 0) return the fixed text
AsmReturnNoDocs ==
    /\ asm.stage = "loop"
    /\ asm.docs = <<>>
    /\ asm' = [asm EXCEPT !.stage = "nodocs"]
    /\ UNCHANGED appVars

\* after the loop: the history lines are built and generateContent is called
AsmSend ==
    /\ asm.stage = "loop"
    /\ asm.docs # <<>>
    /\ asm.idx = Len(asm.docs) \/ asm.st.stop
    /\ asm' = [asm EXCEPT !.stage = "sent",
                          !.prompt = PromptTemplate(asm.query, asm.history, asm.st.buf)]
    /\ UNCHANGED appVars

NextPrompt == AsmIterate \/ AsmReturnNoDocs \/ AsmSend

SpecPrompt == InitPrompt /\ [][NextPrompt]_vars

\* the first line of the content that is not blank
FirstNonBlank(content) ==
    content[CHOOSE i \in DOMAIN content :
                NonBlank(content[i]) /\ \A j \in 1..(i - 1) : ~NonBlank(content[j])]

AsmDocOf(id) == CHOOSE d \in Range(asm.docs) : d.id = id

\* the piece before position j of the buffer is the whole repeated-header marker of the
\* document of piece j, with that document's header line in it
MarkerBefore(buf, j) ==
    /\ j > 1
    /\ buf[j - 1].k = "rephdr"
    /\ buf[j - 1].doc = buf[j].doc
    /\ buf[j - 1].len = RepHeaderPrefixLen + FirstNonBlank(AsmDocOf(buf[j].doc).content).n
                          + RepHeaderSuffixLen

\* the section of document id in the buffer was cut
Truncated(buf, id) == \E j \in DOMAIN buf : buf[j].k = "TRUNC" /\ buf[j].doc = id

\* C11: in the assembled output of a CSV document, a row label is immediately preceded
\* by the repeated-header marker holding the header line exactly when its index is a
\* positive multiple of 50; every line follows its own row label, and a document that
\* was not cut has every non-blank line in it, labelled by its index
C11_PeriodicHeader ==
    LET buf == asm.st.buf IN
    /\ \A j \in DOMAIN buf :
          /\ buf[j].k = "label" =>
                (MarkerBefore(buf, j) <=> (buf[j].i > 0 /\ buf[j].i % HEADER_PERIOD = 0))
          /\ buf[j].k = "line" =>
                /\ j > 1 /\ buf[j - 1].k = "label"
                /\ buf[j - 1].doc = buf[j].doc /\ buf[j - 1].i = buf[j].i
                /\ buf[j - 1].len = RowLabelPrefixLen + Digits(buf[j].i) + RowLabelSuffixLen
          /\ buf[j].k = "rephdr" /\ j < Len(buf) => buf[j + 1].k \in {"label", "TRUNC"}
    /\ \A d \in 1..asm.idx :
          LET s == asm.docs[d]
              rows == SelectSeq(s.content, NonBlank)
          IN  (IsCsv(s) /\ ~Truncated(buf, s.id) /\ ~asm.st.stop) =>
                 \A idx \in 0..(Len(rows) - 1) :
                    \E j \in DOMAIN buf :
                       /\ buf[j].k = "line" /\ buf[j].doc = s.id /\ buf[j].i = idx
                       /\ buf[j].len = rows[idx + 1].n

NonEmpty(l) == l.n > 0

\* C11 as stated: every non-empty line of a CSV document that was not cut, the lines of
\* blanks included, is in the output under its index among the non-empty lines
C11_EveryNonEmptyLineLabelled ==
    LET buf == asm.st.buf IN
    \A d \in 1..asm.idx :
        LET s == asm.docs[d]
            rows == SelectSeq(s.content, NonEmpty)
        IN  (IsCsv(s) /\ ~Truncated(buf, s.id) /\ ~asm.st.stop) =>
               \A idx \in 0..(Len(rows) - 1) :
                  \E j \in DOMAIN buf :
                     /\ buf[j].k = "line" /\ buf[j].doc = s.id /\ buf[j].i = idx
                     /\ buf[j].len = rows[idx + 1].n

\* a table of 100 non-blank lines was assembled: Row_50 carries the marker, Row_49 not
C11_Witness ==
    LET buf == asm.st.buf IN
    /\ \E j \in DOMAIN buf : buf[j].k = "label" /\ buf[j].i = 50 /\ MarkerBefore(buf, j)
    /\ \E j \in DOMAIN buf : buf[j].k = "label" /\ buf[j].i = 49 /\ ~MarkerBefore(buf, j)
    /\ \E j \in DOMAIN buf : buf[j].k = "line" /\ buf[j].i = 99
    /\ \E j \in DOMAIN buf : buf[j].k = "TRUNC"

(* ---------------------------------------------------------------------- *)
(* Properties                                                              *)
(* ---------------------------------------------------------------------- *)
DocOf(srcs, id) == CHOOSE s \in Range(srcs) : s.id = id
DecodedText(file) == Utf8Decode(file.data)
Finished == {"COMPLETED", "ERROR"}

\* C1: a document whose remote classification call failed has its locally decoded,
\* non-empty text as content and the status ERROR
C1_FailedCallGivesError ==
    \A id \in DOMAIN tasks :
        (/\ tasks[id].stage = "done"
         /\ tasks[id].outcome = "fail"
         /\ TextLen(DecodedText(tasks[id].file)) > 0
         /\ id \in Ids(sources))
        => /\ DocOf(sources, id).content = DecodedText(tasks[id].file)
           /\ TextLen(DocOf(sources, id).content) > 0
           /\ DocOf(sources, id).status = "ERROR"

\* C2: a document card dropped on the partition "all" ends in "uncategorized"
C2_DropOnAllGoesUncategorized ==
    [][\A id \in Ids(sources) :
          PartitionDropInternal("all", id) => DocOf(sources', id).partitionId = "uncategorized"]_vars

\* C3: every record of a batch whose file read and remote call have settled
\* is COMPLETED or ERROR; none is left in PROCESSING
C3_SettledRecordsAreFinal ==
    \A id \in DOMAIN tasks :
        (tasks[id].stage \in {"done", "readfailed"} /\ id \in Ids(sources))
        => DocOf(sources, id).status \in Finished

InFlight == {i \in DOMAIN requests : requests[i].stage = "remote"}

MsgIdx(role, ask) == {j \in DOMAIN chatHistory :
                         chatHistory[j].role = role /\ chatHistory[j].ask = ask}

\* C6: each accepted ask has exactly one user message, then (once the call has
\* completed) exactly one model message after it; a failed call's model message is
\* the inline error text
C6_UserThenModel ==
    \A k \in DOMAIN requests :
        /\ Cardinality(MsgIdx("user", k)) = 1
        /\ \A j \in MsgIdx("user", k) : chatHistory[j].text = requests[k].query
        /\ requests[k].stage = "remote" => MsgIdx("model", k) = {}
        /\ requests[k].stage = "done" =>
              /\ Cardinality(MsgIdx("model", k)) = 1
              /\ \A u \in MsgIdx("user", k), m \in MsgIdx("model", k) : u < m
              /\ requests[k].outcome = "fail" =>
                    \A m \in MsgIdx("model", k) : chatHistory[m].text = "ANALYSIS_FAILED"

\* an ask whose remote call failed, answered by the error text
C6_Witness ==
    \E k \in DOMAIN requests :
        /\ requests[k].stage = "done" /\ requests[k].outcome = "fail"
        /\ \E m \in MsgIdx("model", k) : chatHistory[m].text = "ANALYSIS_FAILED"

\* C7: no document has partitionId "all"; every partitionId is a partition of the list
C7_PartitionIdsValid ==
    \A i \in DOMAIN sources :
        /\ sources[i].partitionId # "all"
        /\ sources[i].partitionId \in Range(partitions) \cup {"uncategorized"}

\* files dropped while "all" was the current partition, and a document in a new partition
C7_Witness ==
    /\ \E i \in DOMAIN sources :
          sources[i].partitionId = "uncategorized" /\ sources[i].status = "PROCESSING"
    /\ \E i \in DOMAIN sources : sources[i].partitionId = "p1"
    /\ currentPartitionId = "all"

NoContent(srcs) == \A i \in DOMAIN srcs : TextLen(srcs[i].content) = 0

\* C8: an ask whose candidate documents are none, or all without content, issues no
\* remote call and is answered by the fixed "no valid documents" text
C8_NoDocumentsNoCall ==
    \A k \in DOMAIN requests :
        NoContent(requests[k].candidates)
        => /\ ~requests[k].remote
           /\ \E u \in MsgIdx("user", k) :
                 /\ u + 1 \in DOMAIN chatHistory
                 /\ chatHistory[u + 1] = Message("model", "NO_VALID_DOCS", k)

\* asked with no partition selected while the store holds a document with content,
\* and asked with a selected partition whose only document has no content yet
C8_Witness ==
    /\ \E k \in DOMAIN requests :
          /\ requests[k].candidates = <<>>
          /\ selectedAnalysisPartitions = {}
          /\ ~NoContent(sources)
    /\ \E k \in DOMAIN requests :
          requests[k].candidates # <<>> /\ NoContent(requests[k].candidates)

\* C9: a file document whose classification is still pending has its decoded text
\* as content
C9_PendingHasContent ==
    \A id \in DOMAIN tasks :
        (tasks[id].stage = "classifying" /\ id \in Ids(sources))
        => DocOf(sources, id).content = DecodedText(tasks[id].file)

\* C10: a document keeps its id, a COMPLETED or ERROR document keeps its status, and a
\* PROCESSING document only moves to COMPLETED or ERROR
C10_StatusForward ==
    [][\A i \in DOMAIN sources, j \in DOMAIN sources' :
          sources[i].born = sources'[j].born
          => /\ sources'[j].id = sources[i].id
             /\ sources[i].status \in Finished => sources'[j].status = sources[i].status
             /\ sources'[j].status \in {sources[i].status} \cup Finished]_vars

\* a reassignment has just acted on a store of two finished documents
C10_Witness ==
    /\ lastEvent = "move"
    /\ Len(sources) = 2
    /\ \A i \in DOMAIN sources : sources[i].status \in Finished
    /\ \E i \in DOMAIN sources : sources[i].status = "ERROR"
    /\ ~loadPending

IsPrefix(a, b) == Len(a) <= Len(b) /\ SubSeq(b, 1, Len(a)) = a

Patches(id) ==
    \/ \E outcome \in RemoteOutcomes : ClassifyResolve(id, outcome)
    \/ \E b64 \in AllBase64 : ReaderOnLoad(id, b64)

\* C13: when the chain of one file settles (classified, or failed), the store keeps its
\* length and order and every document with another id is left as it was
C13_PatchOnlyOwn ==
    [][\A id \in DocIds :
          Patches(id) =>
             /\ Len(sources') = Len(sources)
             /\ \A i \in DOMAIN sources : sources[i].id # id => sources'[i] = sources[i]]_vars

\* of a batch of two, one file's call has failed and its sibling is still being classified
C13_Witness ==
    \E i \in DOMAIN tasks, j \in DOMAIN tasks :
        /\ i # j
        /\ tasks[i].stage = "done" /\ tasks[i].outcome = "fail"
        /\ tasks[j].stage = "classifying"
        /\ i \in Ids(sources) /\ j \in Ids(sources)
        /\ DocOf(sources, j).status = "PROCESSING"
        /\ DocOf(sources, j).sequenceNumber = DocOf(sources, i).sequenceNumber + 1

\* C14: when the chain of a file whose document is no longer in the store settles, the
\* store is left exactly as it was: the document is not created again, no document
\* changes and none becomes ERROR
C14_PatchOfDeletedIsNoOp ==
    [][\A id \in DocIds :
          (id \in DOMAIN tasks /\ id \notin Ids(sources) /\ Patches(id))
          => sources' = sources]_vars

\* a document was deleted while its call was in flight, the call has since resolved,
\* and the store still holds its sibling
C14_Witness ==
    /\ lastEvent = "patch_missing"
    /\ \E id \in DOMAIN tasks :
          /\ tasks[id].stage = "done" /\ tasks[id].outcome \in RemoteOutcomes
          /\ id \notin Ids(sources)
    /\ sources # <<>>
    /\ ~loadPending /\ ~loadResult.some

\* the interpolated block of kind k of a prompt
BlockOf(prompt, k) == prompt[CHOOSE i \in DOMAIN prompt : prompt[i].k = k]

\* C15: the history section of the prompt is the last min(6, n) messages of the n-message
\* log handed to analyzeData, in their order, each under the label of its role
C15_LastSixTurns ==
    asm.stage = "sent" =>
       LET lines == BlockOf(asm.prompt, "HISTORY").history
           n == Len(asm.history)
           k == IF n < 6 THEN n ELSE 6
       IN  /\ Len(lines) = k
           /\ \A i \in 1..k :
                 /\ lines[i].text = asm.history[n - k + i].text
                 /\ lines[i].speaker =
                       (IF asm.history[n - k + i].role = "user" THEN "USER_LABEL" ELSE "MODEL_LABEL")

\* a log of 8 messages was handed over: the prompt starts at the third and ends at the eighth
C15_Witness ==
    /\ asm.stage = "sent"
    /\ Len(asm.history) = 8
    /\ BlockOf(asm.prompt, "HISTORY").history[1].text = "t3"
    /\ BlockOf(asm.prompt, "HISTORY").history[6].text = "t8"

\* C16: whatever base64 data a file's chain hands to extractTextFromDocument, and however
\* the remote call settles, the promise resolves with a text and a summary
C16_NeverRejects ==
    \A id \in DOMAIN tasks :
        tasks[id].stage \in {"classifying", "done"} =>
           \A outcome \in RemoteOutcomes :
              ~extractTextFromDocument(tasks[id].b64, outcome).rejected

\* C17: a send with an empty or blank query starts no analysis request and puts a
\* message before the user
C17_EmptyQueryReported ==
    [][(handleSendMessage /\ Trim(view.query) = "")
         => /\ requests' = requests
            /\ Len(chatHistory') > Len(chatHistory)]_vars

\* the request the handler has just issued
Issued == requests'[Len(requests')]

\* position of the document of that id in a store
PosOf(srcs, id) == CHOOSE i \in DOMAIN srcs : srcs[i].id = id

\* C18: the documents handed to a request are the documents of the store as last
\* rendered whose partitionId is among the selected ids, in store order, and none from
\* another partition; by id they are those of the store itself
C18_SelectedOfRendered ==
    [][(handleSendMessage /\ requests' # requests) =>
          LET c == Issued.candidates IN
          /\ \A i \in DOMAIN c : c[i].partitionId \in selectedAnalysisPartitions
          /\ \A i \in DOMAIN c : c[i] \in Range(view.sources)
          /\ \A i \in DOMAIN view.sources :
                view.sources[i].partitionId \in selectedAnalysisPartitions
                => view.sources[i] \in Range(c)
          /\ \A i \in DOMAIN c, j \in DOMAIN c :
                i < j => PosOf(view.sources, c[i].id) < PosOf(view.sources, c[j].id)
          /\ Ids(c) = {sources[i].id : i \in {x \in DOMAIN sources :
                                       sources[x].partitionId \in selectedAnalysisPartitions}}]_vars

\* C18 as stated: the documents handed over are those of the store at that moment
C18_SelectedOfStore ==
    [][(handleSendMessage /\ requests' # requests) =>
          LET In(s) == s.partitionId \in selectedAnalysisPartitions
          IN  Issued.candidates = SelectSeq(sources, In)]_vars

\* a request was issued over a store of two documents, one in a selected partition and
\* handed over, the other in a partition that had been deselected and left out
C18_Witness ==
    /\ Len(sources) = 2
    /\ \E k \in DOMAIN requests :
          /\ Len(requests[k].candidates) = 1
          /\ requests[k].candidates[1] \in Range(sources)
          /\ \E i \in DOMAIN sources :
                /\ sources[i].partitionId \notin selectedAnalysisPartitions
                /\ sources[i].born <= requests[k].candidates[1].born
                /\ HasContent(sources[i])
          /\ requests[k].stage = "remote"

\* C19: every step leaves the conversation log as it was or adds messages at its end:
\* the log of a state is a prefix of the log of every later state
C19_LogAppendOnly == [][IsPrefix(chatHistory, chatHistory')]_vars

\* after an ask that succeeded and one that failed, a send was turned down
C19_Witness ==
    /\ Len(chatHistory) = 4
    /\ \E k \in DOMAIN requests : requests[k].outcome = "fail"
    /\ \E k \in DOMAIN requests : requests[k].outcome = "text"
    /\ lastEvent = "send_rejected_empty"

Kinds(prompt) == {prompt[i].k : i \in DOMAIN prompt}

\* C20: every prompt handed to the remote model holds the data-sovereignty block, the
\* four steps of the reasoning protocol, and the table-first rule (two or more compared
\* entities, or data rich in numbers, go in a table)
C20_FixedBlocks ==
    asm.stage = "sent" =>
       /\ {"SOVEREIGNTY_HEADING", "SOVEREIGNTY_FILE_IS_TRUTH", "SOVEREIGNTY_NO_MERGING"}
             \subseteq Kinds(asm.prompt)
       /\ {"STEP1_LOCATE_ROWS", "STEP2_VERIFY_DIFFERENCES", "STEP3_CHECK_TOTALS",
           "STEP4_MARKDOWN_TABLE"} \subseteq Kinds(asm.prompt)
       /\ "TABLE_FIRST_RULE" \in Kinds(asm.prompt)

\* the document of that id has its sentinels in the buffer
Included(buf, id) == \E j \in DOMAIN buf : buf[j].k = "FILE_START" /\ buf[j].doc = id

\* the section of the document of that id holds row labels or repeated headers
CsvTreated(buf, id) ==
    \E j \in DOMAIN buf : buf[j].doc = id /\ buf[j].k \in {"label", "rephdr"}

\* C21: a document of the context carries row labels and repeated headers exactly when
\* its kind, as the ingestion typed it, is CSV; a document of another kind is in the
\* context as its content, unmodified
C21_CsvTreatmentIffCsvKind ==
    \A d \in 1..asm.idx :
        LET s == asm.docs[d] IN
        Included(asm.st.buf, s.id) =>
           /\ CsvTreated(asm.st.buf, s.id) <=> (s.type = "CSV")
           /\ s.type # "CSV" =>
                 \E j \in DOMAIN asm.st.buf :
                    /\ asm.st.buf[j].doc = s.id /\ asm.st.buf[j].k = "raw"
                    /\ (~Truncated(asm.st.buf, s.id) => asm.st.buf[j].len = TextLen(s.content))

\* what is left of the budget for the content of document s after what the buffer holds
Remaining(buf, s) ==
    MAX_TOTAL_CHARS - RopeLen(buf)
       - (FileStartPrefixLen + s.name.len + FileStartMidLen + ID_LEN + FileStartSuffixLen)
       - (FileEndPrefixLen + s.name.len + FileEndSuffixLen)

\* C22: the documents in the context are a prefix of the valid documents, in their order;
\* the loop stops at the first document left with 200 characters or fewer, and neither
\* that document nor any later one is in the context
C22_IncludedIsPrefix ==
    LET buf == asm.st.buf
        incl(d) == Included(buf, asm.docs[d].id)
    IN  /\ \A d \in DOMAIN asm.docs : incl(d) => \A e \in 1..(d - 1) : incl(e)
        /\ \A d \in DOMAIN asm.docs : d > asm.idx => ~incl(d)
        /\ \A d \in 1..asm.idx : ~incl(d) => (d = asm.idx /\ asm.st.stop)
        /\ \A i \in DOMAIN buf, j \in DOMAIN buf :
              (i < j /\ buf[i].k = "FILE_START" /\ buf[j].k = "FILE_START")
              => buf[i].doc < buf[j].doc
        /\ asm.st.stop =>
              /\ ~incl(asm.idx)
              /\ Remaining(buf, asm.docs[asm.idx]) <= RESERVE

\* the loop stopped at the second of three documents, whose long name left it 200
\* characters or fewer, while the third, with a shorter name, would have fitted whole
C22_Witness ==
    /\ asm.st.stop
    /\ asm.idx = 2
    /\ Len(asm.docs) = 3
    /\ Included(asm.st.buf, asm.docs[1].id)
    /\ Remaining(asm.st.buf, asm.docs[3]) > RESERVE
    /\ TextLen(asm.docs[3].content) <= Remaining(asm.st.buf, asm.docs[3])

Sentinels == {"FILE_START", "FILE_END"}
Starts(buf) == {j \in DOMAIN buf : buf[j].k = "FILE_START"}
Ends(buf) == {j \in DOMAIN buf : buf[j].k = "FILE_END"}

\* the start sentinel at j is closed at e by the end sentinel of the same document, with
\* nothing but that document's content between them
Closes(buf, j, e) ==
    /\ j < e
    /\ buf[e].doc = buf[j].doc
    /\ \A m \in (j + 1)..(e - 1) : buf[m].k \notin Sentinels /\ buf[m].doc = buf[j].doc

\* C23: every document of the context has exactly one start sentinel, whole and with its
\* name and id, closed by exactly one end sentinel, whole and with its name; the
\* sentinels alternate and are as many of one kind as of the other, also when the
\* content was cut
C23_SentinelsPaired ==
    LET buf == asm.st.buf IN
    /\ \A j \in Starts(buf) : \E e \in Ends(buf) : Closes(buf, j, e)
    /\ \A e \in Ends(buf) : \E j \in Starts(buf) : Closes(buf, j, e)
    /\ Cardinality(Starts(buf)) = Cardinality(Ends(buf))
    /\ \A i \in Starts(buf), j \in Starts(buf) : buf[i].doc = buf[j].doc => i = j
    /\ \A i \in Ends(buf), j \in Ends(buf) : buf[i].doc = buf[j].doc => i = j
    /\ buf # <<>> => buf[1].k = "FILE_START" /\ buf[Len(buf)].k = "FILE_END"
    /\ \A j \in Starts(buf) :
          LET s == AsmDocOf(buf[j].doc) IN
          /\ buf[j].name = s.name /\ buf[j].sid = s.id
          /\ buf[j].len = FileStartPrefixLen + s.name.len + FileStartMidLen + ID_LEN
                            + FileStartSuffixLen
    /\ \A e \in Ends(buf) :
          LET s == AsmDocOf(buf[e].doc) IN
          /\ buf[e].name = s.name
          /\ buf[e].len = FileEndPrefixLen + s.name.len + FileEndSuffixLen

\* C23 as stated: the start and the end sentinel both carry the name and the id
C23_BothCarryNameAndId ==
    \A j \in DOMAIN asm.st.buf :
        asm.st.buf[j].k \in Sentinels =>
           /\ asm.st.buf[j].name = AsmDocOf(asm.st.buf[j].doc).name
           /\ asm.st.buf[j].sid = AsmDocOf(asm.st.buf[j].doc).id

\* two documents are in the context, the second cut and closed after the marker
C23_Witness ==
    LET buf == asm.st.buf IN
    /\ Cardinality(Starts(buf)) = 2
    /\ \E j \in DOMAIN buf :
          /\ buf[j].k = "TRUNC" /\ buf[j].doc = asm.docs[2].id
          /\ j + 1 \in Ends(buf)

StartIdx(buf, id) == CHOOSE j \in Starts(buf) : buf[j].doc = id
EndIdx(buf, id) == CHOOSE j \in Ends(buf) : buf[j].doc = id

\* what the buffer holds between the sentinels of the document of that id
SectionOf(buf, id) == SubSeq(buf, StartIdx(buf, id) + 1, EndIdx(buf, id) - 1)

\* the budget left for the content of s when its turn came
BudgetAt(buf, s) == Remaining(SubSeq(buf, 1, StartIdx(buf, s.id) - 1), s)

\* kept is the first characters of whole: its pieces are those of whole, the last one
\* possibly shortened
IsCharPrefix(kept, whole) ==
    /\ Len(kept) <= Len(whole)
    /\ \A m \in 1..(Len(kept) - 1) : kept[m] = whole[m]
    /\ kept # <<>> =>
          /\ [kept[Len(kept)] EXCEPT !.len = 0] = [whole[Len(kept)] EXCEPT !.len = 0]
          /\ kept[Len(kept)].len <= whole[Len(kept)].len

\* C24: a document of the context whose processed content is longer than the budget left
\* for it is there as exactly that many of its first characters followed by the
\* truncation marker; one whose content is not longer is there whole, without marker
C24_CutToBudget ==
    \A d \in 1..asm.idx :
        LET s == asm.docs[d]
            buf == asm.st.buf
        IN  Included(buf, s.id) =>
              LET sec == SectionOf(buf, s.id)
                  whole == ProcessedContent(s)
                  left == BudgetAt(buf, s)
              IN  IF RopeLen(whole) > left
                  THEN /\ sec # <<>> /\ sec[Len(sec)].k = "TRUNC"
                       /\ sec[Len(sec)].len = TruncMarkerLen
                       /\ RopeLen(SubSeq(sec, 1, Len(sec) - 1)) = left
                       /\ IsCharPrefix(SubSeq(sec, 1, Len(sec) - 1), whole)
                       /\ \A m \in 1..(Len(sec) - 1) : sec[m].k # "TRUNC"
                  ELSE sec = whole

\* the first document is in the context whole, the second, a table, is cut inside a row
C24_Witness ==
    LET buf == asm.st.buf IN
    /\ asm.idx = 2 /\ ~asm.st.stop
    /\ ~Truncated(buf, asm.docs[1].id)
    /\ SectionOf(buf, asm.docs[1].id) = ProcessedContent(asm.docs[1])
    /\ Truncated(buf, asm.docs[2].id)
    /\ LET sec == SectionOf(buf, asm.docs[2].id)
       IN  /\ Len(sec) > 2
           /\ sec[Len(sec) - 1].k = "line"
           /\ sec[Len(sec) - 1].len < ProcessedContent(asm.docs[2])[Len(sec) - 1].len

\* C25: a document handed to analyzeData with empty content (the threshold is one
\* character) has no sentinel in the context, a document with content has; the call
\* removes nothing from the store, where the documents without content stay
C25_EmptyLeftOut ==
    [][/\ \A k \in DOMAIN requests' :
             \A i \in DOMAIN requests'[k].candidates :
                LET c == requests'[k].candidates[i] IN
                /\ TextLen(c.content) = 0 => ~Included(requests'[k].context, c.id)
                /\ TextLen(c.content) > 0 => Included(requests'[k].context, c.id)
       /\ (handleSendMessage /\ requests' # requests) =>
             /\ sources' = sources
             /\ \A i \in DOMAIN Issued.candidates : Issued.candidates[i].id \in Ids(sources')]_vars

\* a request was handed a placeholder without content and a link with content: only the
\* link is in the context, and both are still in the store
C25_Witness ==
    \E k \in DOMAIN requests :
        /\ Len(requests[k].candidates) = 2
        /\ \E i \in 1..2 : /\ TextLen(requests[k].candidates[i].content) = 0
                             /\ ~Included(requests[k].context, requests[k].candidates[i].id)
        /\ Cardinality(Starts(requests[k].context)) = 1
        /\ Len(sources) = 2
        /\ Ids(requests[k].candidates) = Ids(sources)

\* one call of processFiles has just appended the batch files
OneBatch(files) ==
    \/ \E pid \in StoreTargets : UploadFromDialog(files, pid)
    \/ RootDrop(files)
    \/ \E p \in StoreTargets : PartitionDropFiles(p, files)

\* C26: the k-th file of a batch gets the store size of the render plus k (index + 1);
\* two batches made from the same render give their k-th files the same sequence
\* number, and the two documents, of different ids, are both in the store
C26_SequenceFromRenderedSize ==
    [][\A files \in StoreBatches :
          /\ OneBatch(files) =>
                \A k \in 1..Len(files) :
                   sources'[Len(sources) + k].sequenceNumber = Len(view.sources) + (k - 1) + 1
          /\ (\E pid \in StoreTargets : DialogDrop(files, pid)) =>
                \A k \in 1..Len(files) :
                   LET a == sources'[Len(sources) + k]
                       b == sources'[Len(sources) + Len(files) + k]
                   IN  /\ a.sequenceNumber = Len(view.sources) + (k - 1) + 1
                       /\ b.sequenceNumber = a.sequenceNumber
                       /\ a.id # b.id]_vars

\* two documents of the store, made by two calls of processFiles, carry the number 1
C26_Witness ==
    \E i \in DOMAIN sources, j \in DOMAIN sources :
        /\ i < j
        /\ sources[i].id # sources[j].id
        /\ sources[i].id \in DOMAIN tasks /\ sources[j].id \in DOMAIN tasks
        /\ tasks[sources[i].id].stage # "link" /\ tasks[sources[j].id].stage # "link"
        /\ sources[i].sequenceNumber = 1 /\ sources[j].sequenceNumber = 1

\* C27: an accepted ask leaves the session awaiting (the rendered isAnalyzing is true),
\* and an awaiting session leads to an idle one, where the state and its rendering both
\* have isAnalyzing false, whether the call succeeded, failed or was not made
C27_BackToIdle ==
    /\ [][(handleSendMessage /\ requests' # requests) => view'.isAnalyzing]_vars
    /\ (view.isAnalyzing ~> (~isAnalyzing /\ ~view.isAnalyzing))

\* the session is idle again after an ask that failed and one made without documents
C27_Witness ==
    /\ ~isAnalyzing /\ ~view.isAnalyzing
    /\ \E k \in DOMAIN requests : requests[k].outcome = "fail"
    /\ \E k \in DOMAIN requests : requests[k].outcome = "local"

\* the positions at which the store has changed in this step
Changed == {i \in DOMAIN sources : i \notin DOMAIN sources' \/ sources'[i] # sources[i]}

\* C28: a reassignment leaves the store with the same number of documents in the same
\* order and changes at most one of them, in its partitionId alone, to the partition of
\* the drop; when the dragged id is not in the store, nothing changes
C28_ReassignOnlyPartition ==
    [][lastEvent' \in {"move", "move_all"} =>
          /\ Len(sources') = Len(sources)
          /\ Cardinality(Changed) <= 1
          /\ \A i \in Changed :
                /\ sources'[i] = [sources[i] EXCEPT !.partitionId = currentPartitionId']
                /\ sources[i].id \in Ids(view.sources)
          /\ (\A id \in Ids(view.sources) : id \notin Ids(sources)) => sources' = sources]_vars

\* a finished document of a store of two has just been moved to the new partition
C28_Witness ==
    /\ lastEvent = "move"
    /\ Len(sources) = 2
    /\ currentPartitionId = "p1"
    /\ \E i \in DOMAIN sources :
          /\ sources[i].partitionId = "p1" /\ sources[i].status = "COMPLETED"
          /\ TextLen(sources[i].content) > 0
          /\ sources[i].sequenceNumber = 1
    /\ \E i \in DOMAIN sources : sources[i].partitionId # "p1"

\* the positions, in the list handed to the loop, of the documents that were cut
TruncatedDocs(buf) == {d \in DOMAIN asm.docs : Truncated(buf, asm.docs[d].id)}

\* C29: at most one document of a context is cut, and it is the last one in it: with
\* the cut the buffer has used the whole budget (and the marker on top of it), so that
\* the next document, if there is one, stops the loop
C29_OneTruncationLast ==
    LET buf == asm.st.buf IN
    /\ Cardinality(TruncatedDocs(buf)) <= 1
    /\ \A d \in TruncatedDocs(buf) :
          /\ \A e \in DOMAIN asm.docs : e > d => ~Included(buf, asm.docs[e].id)
          /\ MAX_TOTAL_CHARS - RopeLen(buf) <= 0
          /\ buf[Len(buf) - 1].k = "TRUNC" /\ buf[Len(buf) - 1].doc = asm.docs[d].id
          /\ asm.idx > d => (asm.idx = d + 1 /\ asm.st.stop)

\* of three documents the first is in the context whole, the second cut, and the third,
\* five characters long, stopped the loop
C29_Witness ==
    /\ Len(asm.docs) = 3 /\ asm.idx = 3 /\ asm.st.stop
    /\ Included(asm.st.buf, asm.docs[1].id)
    /\ TruncatedDocs(asm.st.buf) = {2}
    /\ TextLen(asm.docs[3].content) = 5
    /\ ~Included(asm.st.buf, asm.docs[3].id)

\* C30: a document leaves the store only in a step that is the user's delete of a
\* rendered document; the resolution of the initial load, in particular, keeps the
\* documents that uploads and links have added before it
C30_RemovedOnlyByDelete ==
    [][(\E id \in Ids(sources) : id \notin Ids(sources'))
          => \E id \in Ids(view.sources) : DeleteSource(id)]_vars

====
